---- MODULE Spec2Model ----
(***************************************************************************)
(* Model of the decktape HTTP server: the POST /convert handler of         *)
(* src/server.js (and its near-duplicate src/unnamed/part_000), the child  *)
(* process it supervises, the temporary directories it stages, and the     *)
(* promise chain that decides what the client receives.                    *)
(*                                                                         *)
(* One action is one run-to-completion turn of the JavaScript event loop:  *)
(* the synchronous code of a callback up to its next await, followed by    *)
(* the promise reactions (microtasks) that this code made runnable.        *)
(***************************************************************************)
EXTENDS Integers, Sequences, FiniteSets, TLC

(* ------------------------------ bounds --------------------------------- *)

\* number of /convert requests that arrive during a run of Spec
MaxReq == 1
\* number of /convert requests that arrive during a run of SpecConc
MaxConc == 2
\* number of data chunks the renderers write to their streams during a run
MaxChunks == 2
\* number of operating-system failures before a request's exit is decided
\* (mkdtemp, writeFile, spawn, readFile) during a run; fs.rm may always fail
MaxFaults == 1
\* number of GET /health requests that arrive during a run
MaxProbes == 1

Reqs == 1..MaxConc
\* the names mkdtemp can return: as many as there are requests, so that a
\* name is free even when no directory is ever removed
DirNames == 1..MaxConc
NoDir == 0

(* --------------------------- JavaScript values -------------------------- *)

\* A JSON value of the request body: its type and its text (a sequence of
\* tokens; the empty sequence is the empty string).
JsUndefined == [t |-> "undefined", v |-> <<>>]
JsString(s) == [t |-> "string", v |-> s]
JsNumber(s) == [t |-> "number", v |-> s]
JsObject == [t |-> "object", v |-> <<>>]

\* ToBoolean of a JSON value, as `!html`, `options.size ? ..` apply it
Truthy(x) ==
  CASE x.t = "undefined" -> FALSE
    [] x.t = "null" -> FALSE
    [] x.t = "boolean" -> x.v = <<"true">>
    [] x.t = "number" -> x.v \notin {<<"0">>, <<"NaN">>}
    [] x.t = "string" -> x.v # <<>>
    [] OTHER -> TRUE

\* `${x}`: the text a template literal (or a legacy writeFile) makes of x
ToText(x) ==
  CASE x.t = "object" -> <<"[object Object]">>
    [] x.t = "undefined" -> <<"undefined">>
    [] OTHER -> x.v

\* the request bodies sent to POST /convert: html absent, empty, a page,
\* and values that are no string; options absent or given
NoOptions == [size |-> JsUndefined, pause |-> JsUndefined]
SomeOptions == [size |-> JsString(<<"A4">>), pause |-> JsNumber(<<"2">>)]
Bodies ==
  { [html |-> JsUndefined, options |-> NoOptions],
    [html |-> JsString(<<>>), options |-> NoOptions],
    [html |-> JsNumber(<<"0">>), options |-> NoOptions],
    [html |-> JsNumber(<<"5">>), options |-> NoOptions],
    [html |-> JsObject, options |-> NoOptions],
    [html |-> JsString(<<"<h1>">>), options |-> SomeOptions] }
NoBody == [html |-> JsUndefined, options |-> NoOptions]

(* ------------------------------ errors ---------------------------------- *)

\* an Error object: its class and its message
Err(name, msg) == [name |-> name, message |-> msg]
NoError == Err("none", <<>>)
MkdtempError == Err("Error", <<"ENOSPC: no space left on device, mkdtemp">>)
WriteFileError == Err("Error", <<"ENOSPC: no space left on device, write">>)
WriteTypeError == Err("TypeError", <<"The \"data\" argument must be of type string">>)
SpawnThrown == Err("Error", <<"spawn E2BIG">>)
SpawnError == Err("Error", <<"spawn node ENOENT">>)
ReadFileError == Err("Error", <<"ENOENT: no such file or directory, open">>)
\* reading the identifiers stdout and stderr where no such binding is in scope
ScopeError == Err("ReferenceError", <<"stdout is not defined">>)
DecktapeFailed(stderrText, stdoutText) ==
  Err("Error", <<"Decktape failed: ">> \o (IF stderrText # <<>> THEN stderrText ELSE stdoutText))

(* --------------------------- file system -------------------------------- *)

\* a directory under os.tmpdir(): whether it exists, which request's mkdtemp
\* made it, and its two files
NoFile == [exists |-> FALSE, data |-> <<>>, by |-> 0]
File(data, by) == [exists |-> TRUE, data |-> data, by |-> by]
AbsentDir == [exists |-> FALSE, owner |-> 0, input |-> NoFile, output |-> NoFile]
EmptyDir(r) == [exists |-> TRUE, owner |-> r, input |-> NoFile, output |-> NoFile]

\* join(os.tmpdir(), "decktape-") + the suffix mkdtemp appends
DirPath(d) == <<"/tmp/decktape-", ToString(d)>>
HtmlPath(d) == DirPath(d) \o <<"/input.html">>
PdfPath(d) == DirPath(d) \o <<"/output.pdf">>
FileUri(path) == <<"file://">> \o path

(* ------------------------ argument construction ------------------------- *)

\* String.prototype.split(","): the text is a sequence of tokens in which
\* "," is the separator
RECURSIVE SplitComma(_)
SplitComma(text) ==
  IF \A i \in 1..Len(text) : text[i] # ","
    THEN <<text>>
    ELSE LET k == CHOOSE i \in 1..Len(text) :
                    text[i] = "," /\ \A j \in 1..(i - 1) : text[j] # ","
         IN <<SubSeq(text, 1, k - 1)>> \o SplitComma(SubSeq(text, k + 1, Len(text)))

\* process.env.X || fallback
EnvOr(value, fallback) == IF value # <<>> THEN value ELSE fallback

DecktapePath == <<"/app/decktape.js">>
DefaultChromePath == <<"/usr/bin/chromium-browser">>
DefaultChromeFlags == <<"--no-sandbox", ",", "--disable-gpu">>

\* the browser flags emitted last to first
ChromeArgsReversed(flags) ==
  [i \in 1..Len(flags) |-> <<"--chrome-arg=">> \o flags[Len(flags) + 1 - i]]

\* chromeFlags.map((flag) => `--chrome-arg=${flag}`)
ChromeArgs(flags) == [i \in 1..Len(flags) |-> <<"--chrome-arg=">> \o flags[i]]

\* navigation keys with a third key after the two
ExtraNavKey(withKeys) ==
  IF withKeys
    THEN << <<"--key=ArrowDown">>, <<"--key=ArrowRight">>, <<"--key=ArrowUp">> >>
    ELSE <<>>

\* the fixed navigation keys of src/server.js; src/unnamed/part_000 has none
NavKeys(withKeys) ==
  IF withKeys THEN << <<"--key=ArrowDown">>, <<"--key=ArrowRight">> >> ELSE <<>>

SizeArg(options) ==
  IF Truthy(options.size) THEN << <<"--size=">> \o ToText(options.size) >> ELSE <<>>
PauseArg(options) ==
  IF Truthy(options.pause) THEN << <<"--pause=">> \o ToText(options.pause) >> ELSE <<>>

BuildArgs(options, d, chromePathEnv, chromeFlagsEnv, withKeys) ==
  << DecktapePath, <<"--chrome-path">>, EnvOr(chromePathEnv, DefaultChromePath) >>
    \o ChromeArgs(SplitComma(EnvOr(chromeFlagsEnv, DefaultChromeFlags)))
    \o << <<"generic">>, FileUri(HtmlPath(d)), PdfPath(d) >>
    \o NavKeys(withKeys)
    \o SizeArg(options)
    \o PauseArg(options)

(* ------------------------------ renderer -------------------------------- *)

\* The renderer finds its positional arguments after the mode token:
\* generic <input uri> <output path>
ModeIndex(argv) == CHOOSE i \in 1..Len(argv) : argv[i] = <<"generic">>
RendererInput(argv) == argv[ModeIndex(argv) + 1]
RendererOutput(argv) == argv[ModeIndex(argv) + 2]
DirOfUri(uri) ==
  IF \E d \in DirNames : FileUri(HtmlPath(d)) = uri
    THEN CHOOSE d \in DirNames : FileUri(HtmlPath(d)) = uri
    ELSE NoDir
DirOfPdf(path) ==
  IF \E d \in DirNames : PdfPath(d) = path
    THEN CHOOSE d \in DirNames : PdfPath(d) = path
    ELSE NoDir
\* the document the renderer makes of a page
Render(html) == <<"%PDF">> \o html
\* what process p writes to one of its streams
Chunk(stream, p) == <<stream, ToString(p)>>

(* ------------------------------ responses ------------------------------- *)

\* The response object of one request: whether a body has been sent, the
\* status code, the headers set, and the body (a JSON error object or the
\* bytes of a file).
NoResponse ==
  [sent |-> FALSE, status |-> 200, cors |-> FALSE, ctype |-> "", disp |-> "",
   error |-> <<>>, details |-> <<>>, diag |-> FALSE,
   stdout |-> <<>>, stderr |-> <<>>, pdf |-> NoFile]

\* the two source files: src/server.js and src/unnamed/part_000
Variants == {"server.js", "part_000"}

\* The first middleware of src/server.js sets the five cross-origin headers
\* on every response before any handler runs; src/unnamed/part_000 has no
\* such middleware.
HasCors(v) == v = "server.js"
Cors(v, resp) == [resp EXCEPT !.cors = HasCors(v)]

\* res.status(400).json({ error: "HTML content is required" })
ValidationResponse(resp) ==
  [resp EXCEPT !.sent = TRUE, !.status = 400, !.ctype = "application/json",
               !.error = <<"HTML content is required">>]

\* res.status(500).json({ error: "PDF conversion failed", details: error.message })
OuterCatchResponse(resp, err) ==
  [resp EXCEPT !.sent = TRUE, !.status = 500, !.ctype = "application/json",
               !.error = <<"PDF conversion failed">>, !.details = err.message]

\* res.setHeader(...); res.setHeader(...); res.send(pdfBuffer)
PdfResponse(resp, file) ==
  [resp EXCEPT !.sent = TRUE, !.ctype = "application/pdf",
               !.disp = "attachment; filename=presentation.pdf", !.pdf = file]

\* The callback of .catch: res.status(500) runs, then the argument of .json
\* is evaluated; it names stdout and stderr, which are bindings of the
\* promise executor and not in scope here, so the evaluation throws and
\* .json is never called. The result: the response object as left behind
\* and the exception thrown.
CatchCallback(resp, err) ==
  [res |-> [resp EXCEPT !.status = 500], thrown |-> ScopeError]

\* the answers to GET /health so far: how many, and the last one
NoHealth == [probes |-> 0, status |-> 0, cors |-> FALSE, body |-> <<>>]

(* -------------------------------- state --------------------------------- *)

VARIABLES
  pc,         \* where each request's handler stands
  body,       \* req.body
  tmpDir,     \* the handler's tmpDir
  dirs,       \* the directories under os.tmpdir()
  args,       \* the argument vector given to spawn
  child,      \* the child process of each request
  stdoutBuf,  \* the handler's stdout
  stderrBuf,  \* the handler's stderr
  promise,    \* the promise made by new Promise
  caught,     \* the error the .catch callback was called with
  handler,    \* the promise returned by the async handler
  res,        \* the response object
  rmTarget,   \* the directory fs.rm was called on
  logged,     \* whether a cleanup failure was logged
  exitPath,   \* the branch the request took
  events,     \* what each handler did, in program order
  health,     \* the answers to GET /health
  variant,    \* which of the two source files is running
  env,        \* process.env: CHROME_PATH and CHROME_FLAGS
  quota,      \* how many requests the clients send
  chunks,     \* data chunks written so far
  faults      \* operating-system failures so far

vars ==
  <<pc, body, tmpDir, dirs, args, child, stdoutBuf, stderrBuf, promise,
    caught, handler, res, rmTarget, logged, exitPath, events, health, variant,
    env, quota, chunks, faults>>

\* neither CHROME_PATH nor CHROME_FLAGS is set
NoEnv == [CHROME_PATH |-> <<>>, CHROME_FLAGS |-> <<>>]

Pending == [state |-> "pending", reason |-> NoError]
Fulfilled == [state |-> "fulfilled", reason |-> NoError]
Rejected(err) == [state |-> "rejected", reason |-> err]

Start ==
  /\ pc = [r \in Reqs |-> "idle"]
  /\ body = [r \in Reqs |-> NoBody]
  /\ tmpDir = [r \in Reqs |-> NoDir]
  /\ dirs = [d \in DirNames |-> AbsentDir]
  /\ args = [r \in Reqs |-> <<>>]
  /\ child = [r \in Reqs |-> "none"]
  /\ stdoutBuf = [r \in Reqs |-> <<>>]
  /\ stderrBuf = [r \in Reqs |-> <<>>]
  /\ promise = [r \in Reqs |-> "none"]
  /\ caught = [r \in Reqs |-> NoError]
  /\ handler = [r \in Reqs |-> [state |-> "none", reason |-> NoError]]
  /\ res = [r \in Reqs |-> NoResponse]
  /\ rmTarget = [r \in Reqs |-> NoDir]
  /\ logged = [r \in Reqs |-> FALSE]
  /\ exitPath = [r \in Reqs |-> "none"]
  /\ events = [r \in Reqs |-> <<>>]
  /\ health = NoHealth
  /\ variant \in Variants
  /\ env = NoEnv
  /\ chunks = 0
  /\ faults = 0

Init == Start /\ quota = MaxReq

InitConc == Start /\ quota = MaxConc

(* --------------------------- promise plumbing --------------------------- *)

\* a reject that settles the promise again when it is already settled
RejectAgain(r, err) ==
  LET out == CatchCallback(res[r], err)
  IN /\ promise' = [promise EXCEPT ![r] = "rejected"]
     /\ caught' = [caught EXCEPT ![r] = err]
     /\ res' = [res EXCEPT ![r] = out.res]
     /\ handler' = [handler EXCEPT ![r] =
                      IF out.thrown = NoError THEN Fulfilled
                                              ELSE Rejected(out.thrown)]

\* reject(err): settles the promise if it is still pending; the .catch
\* callback then runs as a microtask, and whatever it throws rejects the
\* promise the handler returned (`return promise` inside the try block is
\* not awaited there, so the outer catch does not see it)
Reject(r, err) ==
  IF promise[r] = "pending"
    THEN LET out == CatchCallback(res[r], err)
         IN /\ promise' = [promise EXCEPT ![r] = "rejected"]
            /\ caught' = [caught EXCEPT ![r] = err]
            /\ res' = [res EXCEPT ![r] = out.res]
            /\ handler' = [handler EXCEPT ![r] =
                             IF out.thrown = NoError THEN Fulfilled
                                                     ELSE Rejected(out.thrown)]
    ELSE UNCHANGED <<promise, caught, res, handler>>

\* resolve(): settles the promise if it is still pending; .catch passes the
\* fulfilment through to the promise the handler returned
Resolve(r) ==
  IF promise[r] = "pending"
    THEN /\ promise' = [promise EXCEPT ![r] = "resolved"]
         /\ handler' = [handler EXCEPT ![r] = Fulfilled]
    ELSE UNCHANGED <<promise, handler>>

\* the record of a handler's steps: reject or resolve is recorded when it
\* settles the promise, the .catch callback when it runs
RejectLog(r) == IF promise[r] = "pending" THEN <<"reject">> ELSE <<>>
ResolveLog(r) == IF promise[r] = "pending" THEN <<"resolve">> ELSE <<>>
CatchLog(r) == IF promise[r] = "pending" THEN <<"catch">> ELSE <<>>
Log(r, steps) == events' = [events EXCEPT ![r] = @ \o steps]

(* ------------------------------ validation ------------------------------ *)

\* a validation that only looks for a missing property
InvalidOnlyWhenAbsent(html) == html.t = "undefined"

\* if (!html)
Invalid(html) == ~Truthy(html)

\* A request arrives and the handler runs up to its first await: either the
\* validation error is sent, or fs.mkdtemp is called.
Convert(r) ==
  /\ pc[r] = "idle"
  /\ r <= quota
  /\ \A q \in Reqs : q < r => pc[q] # "idle"
  /\ \E b \in Bodies :
       /\ body' = [body EXCEPT ![r] = b]
       /\ IF Invalid(b.html)
            THEN /\ res' = [res EXCEPT ![r] = ValidationResponse(Cors(variant, @))]
                 /\ handler' = [handler EXCEPT ![r] = Fulfilled]
                 /\ exitPath' = [exitPath EXCEPT ![r] = "validation"]
                 /\ Log(r, <<"send">>)
                 /\ pc' = [pc EXCEPT ![r] = "done"]
            ELSE /\ res' = [res EXCEPT ![r] = Cors(variant, @)]
                 /\ handler' = [handler EXCEPT ![r] = Pending]
                 /\ pc' = [pc EXCEPT ![r] = "mkdtemp"]
                 /\ UNCHANGED <<exitPath, events>>
  /\ UNCHANGED <<tmpDir, dirs, args, child, stdoutBuf, stderrBuf, promise,
                 caught, rmTarget, logged, quota, chunks, faults, health,
                 variant, env>>

(* -------------------------------- staging ------------------------------- *)

\* a fixed or guessable directory name in place of mkdtemp's unique one
AnyName(ds) == DirNames

\* the names fs.mkdtemp may return: it creates a directory that did not exist
FreshNames(ds) == {d \in DirNames : ~ds[d].exists}

\* fs.mkdtemp rejects: the outer catch answers; tmpDir is still null, so
\* nothing is removed
MkdtempFails(r) ==
  /\ pc[r] = "mkdtemp"
  /\ faults < MaxFaults
  /\ faults' = faults + 1
  /\ res' = [res EXCEPT ![r] = OuterCatchResponse(@, MkdtempError)]
  /\ handler' = [handler EXCEPT ![r] = Fulfilled]
  /\ exitPath' = [exitPath EXCEPT ![r] = "mkdtemp"]
  /\ Log(r, <<"send">>)
  /\ pc' = [pc EXCEPT ![r] = "done"]
  /\ UNCHANGED <<body, tmpDir, dirs, args, child, stdoutBuf, stderrBuf,
                 promise, caught, rmTarget, logged, chunks, quota, health,
                 variant, env>>

\* fs.mkdtemp resolves: tmpDir is set and fs.writeFile is called
MkdtempDone(r) ==
  /\ pc[r] = "mkdtemp"
  /\ \E d \in FreshNames(dirs) :
       /\ tmpDir' = [tmpDir EXCEPT ![r] = d]
       /\ dirs' = [dirs EXCEPT ![d] = EmptyDir(r)]
  /\ pc' = [pc EXCEPT ![r] = "writeFile"]
  /\ UNCHANGED <<body, args, child, stdoutBuf, stderrBuf, promise, caught,
                 handler, res, rmTarget, logged, exitPath, chunks, faults,
                 quota, events, health, variant, env>>

\* a cleanup block that finds tmpDir unset
NeverSet(t) == FALSE

\* if (tmpDir) in the two cleanup blocks
HasTmpDir(t) == t # NoDir

\* fs.writeFile rejects (the disk, or data that is no string): the outer
\* catch sends the error response and then calls fs.rm
WriteFileFails(r) ==
  /\ pc[r] = "writeFile"
  /\ \/ /\ body[r].html.t = "string"
        /\ ~dirs[tmpDir[r]].exists \/ faults < MaxFaults
        /\ faults' = IF dirs[tmpDir[r]].exists THEN faults + 1 ELSE faults
        /\ res' = [res EXCEPT ![r] = OuterCatchResponse(@, WriteFileError)]
     \/ /\ body[r].html.t # "string"
        /\ faults' = faults
        /\ res' = [res EXCEPT ![r] = OuterCatchResponse(@, WriteTypeError)]
  /\ exitPath' = [exitPath EXCEPT ![r] = "staging"]
  /\ IF HasTmpDir(tmpDir[r])
       THEN /\ rmTarget' = [rmTarget EXCEPT ![r] = tmpDir[r]]
            /\ Log(r, <<"send", "rm">>)
            /\ pc' = [pc EXCEPT ![r] = "rmCatch"]
            /\ UNCHANGED handler
       ELSE /\ handler' = [handler EXCEPT ![r] = Fulfilled]
            /\ Log(r, <<"send">>)
            /\ pc' = [pc EXCEPT ![r] = "done"]
            /\ UNCHANGED rmTarget
  /\ UNCHANGED <<body, tmpDir, dirs, args, child, stdoutBuf, stderrBuf,
                 promise, caught, logged, chunks, quota, health, variant,
                 env>>

\* fs.writeFile resolves: what the handler does next is the same in the
\* three actions below, which differ in what spawn does
Staged(r) ==
  /\ pc[r] = "writeFile"
  /\ body[r].html.t = "string"
  /\ dirs[tmpDir[r]].exists
  /\ dirs' = [dirs EXCEPT ![tmpDir[r]].input = File(body[r].html.v, r)]
  /\ args' = [args EXCEPT ![r] = BuildArgs(body[r].options, tmpDir[r], env.CHROME_PATH,
                               env.CHROME_FLAGS, variant = "server.js")]

(* ------------------------------- spawning ------------------------------- *)

\* spawn throws inside the promise executor (an argument list the system
\* refuses, no memory): the promise is rejected at once; no child exists,
\* so no close event will come and nothing removes the directory
SpawnThrows(r) ==
  /\ Staged(r)
  /\ faults < MaxFaults
  /\ faults' = faults + 1
  /\ promise' = [promise EXCEPT ![r] = "rejected"]
  /\ caught' = [caught EXCEPT ![r] = SpawnThrown]
  /\ LET out == CatchCallback(res[r], SpawnThrown)
     IN /\ res' = [res EXCEPT ![r] = out.res]
        /\ handler' = [handler EXCEPT ![r] =
                         IF out.thrown = NoError THEN Fulfilled
                                                 ELSE Rejected(out.thrown)]
  /\ exitPath' = [exitPath EXCEPT ![r] = "spawn"]
  /\ Log(r, <<"reject", "catch">>)
  /\ pc' = [pc EXCEPT ![r] = "done"]
  /\ UNCHANGED <<body, tmpDir, child, stdoutBuf, stderrBuf, rmTarget, logged,
                 chunks, quota, health, variant, env>>

\* spawn returns a child that could not be started (executable not found):
\* its error event is pending
SpawnFails(r) ==
  /\ Staged(r)
  /\ faults < MaxFaults
  /\ faults' = faults + 1
  /\ promise' = [promise EXCEPT ![r] = "pending"]
  /\ child' = [child EXCEPT ![r] = "failed"]
  /\ pc' = [pc EXCEPT ![r] = "waiting"]
  /\ UNCHANGED <<body, tmpDir, stdoutBuf, stderrBuf, caught, handler, res,
                 rmTarget, logged, exitPath, chunks, quota, events, health,
                 variant, env>>

\* a handler that reads output.pdf as soon as the child is started
SpawnedReadsAtOnce(r) ==
  /\ Staged(r)
  /\ promise' = [promise EXCEPT ![r] = "pending"]
  /\ child' = [child EXCEPT ![r] = "running"]
  /\ Log(r, <<"read">>)
  /\ pc' = [pc EXCEPT ![r] = "readFile"]
  /\ UNCHANGED <<body, tmpDir, stdoutBuf, stderrBuf, caught, handler, res,
                 rmTarget, logged, exitPath, chunks, faults, quota, health,
                 variant, env>>

\* spawn returns a running child; the four listeners are registered
Spawned(r) ==
  /\ Staged(r)
  /\ promise' = [promise EXCEPT ![r] = "pending"]
  /\ child' = [child EXCEPT ![r] = "running"]
  /\ pc' = [pc EXCEPT ![r] = "waiting"]
  /\ UNCHANGED <<body, tmpDir, stdoutBuf, stderrBuf, caught, handler, res,
                 rmTarget, logged, exitPath, chunks, faults, quota, events,
                 health, variant, env>>

(* --------------------------- the child process -------------------------- *)

\* a stdout buffer that is one variable of the module, shared by all requests
StdoutDataShared(r) ==
  /\ child[r] = "running"
  /\ chunks < MaxChunks
  /\ chunks' = chunks + 1
  /\ stdoutBuf' = [q \in Reqs |-> stdoutBuf[q] \o Chunk("out", r)]
  /\ UNCHANGED <<pc, body, tmpDir, dirs, args, child, stderrBuf, promise,
                 caught, handler, res, rmTarget, logged, exitPath, faults,
                 quota, events, health, variant, env>>

\* decktape.stdout.on("data"): stdout += data.toString()
StdoutData(r) ==
  /\ child[r] = "running"
  /\ chunks < MaxChunks
  /\ chunks' = chunks + 1
  /\ stdoutBuf' = [stdoutBuf EXCEPT ![r] = @ \o Chunk("out", r)]
  /\ UNCHANGED <<pc, body, tmpDir, dirs, args, child, stderrBuf, promise,
                 caught, handler, res, rmTarget, logged, exitPath, faults,
                 quota, events, health, variant, env>>

\* decktape.stderr.on("data"): stderr += data.toString()
StderrData(r) ==
  /\ child[r] = "running"
  /\ chunks < MaxChunks
  /\ chunks' = chunks + 1
  /\ stderrBuf' = [stderrBuf EXCEPT ![r] = @ \o Chunk("err", r)]
  /\ UNCHANGED <<pc, body, tmpDir, dirs, args, child, stdoutBuf, promise,
                 caught, handler, res, rmTarget, logged, exitPath, faults,
                 quota, events, health, variant, env>>

\* the renderer reads the page its arguments name and writes the document
\* to the output path its arguments name
RendererWrites(r) ==
  /\ child[r] = "running"
  /\ LET din == DirOfUri(RendererInput(args[r]))
         dout == DirOfPdf(RendererOutput(args[r]))
     IN /\ din # NoDir /\ dout # NoDir
        /\ dirs[din].exists /\ dirs[din].input.exists
        /\ dirs[dout].exists
        /\ dirs[dout].output # File(Render(dirs[din].input.data), r)
        /\ dirs' = [dirs EXCEPT ![dout].output = File(Render(dirs[din].input.data), r)]
  /\ UNCHANGED <<pc, body, tmpDir, args, child, stdoutBuf, stderrBuf,
                 promise, caught, handler, res, rmTarget, logged, exitPath,
                 chunks, faults, quota, events, health, variant, env>>

\* decktape.on("error"): reject(error)
ErrorEvent(r) ==
  /\ child[r] = "failed"
  /\ child' = [child EXCEPT ![r] = "errored"]
  /\ Reject(r, SpawnError)
  /\ Log(r, <<"error">> \o RejectLog(r) \o CatchLog(r))
  /\ exitPath' = [exitPath EXCEPT ![r] = "launch"]
  /\ UNCHANGED <<pc, body, tmpDir, dirs, args, stdoutBuf, stderrBuf,
                 rmTarget, logged, chunks, faults, quota, health, variant,
                 env>>

\* the codes a close event carries: the exit status, null when the child
\* was killed by a signal, the negated errno when it never started
CloseCodes(c) == IF c = "errored" THEN {"-2"} ELSE {"0", "1", "null"}

\* a cleanup written after res.send instead of in a finally block
CleanupAfterSendOnly(r) ==
  IF HasTmpDir(tmpDir[r]) /\ res'[r].sent
    THEN /\ rmTarget' = [rmTarget EXCEPT ![r] = tmpDir[r]]
         /\ pc' = [pc EXCEPT ![r] = "rmClose"]
    ELSE /\ pc' = [pc EXCEPT ![r] = "done"]
         /\ UNCHANGED rmTarget

\* the finally block of the close listener: fs.rm is called when tmpDir is set
Finally(r) ==
  IF HasTmpDir(tmpDir[r])
    THEN /\ rmTarget' = [rmTarget EXCEPT ![r] = tmpDir[r]]
         /\ pc' = [pc EXCEPT ![r] = "rmClose"]
    ELSE /\ pc' = [pc EXCEPT ![r] = "done"]
         /\ UNCHANGED rmTarget

\* the finally block in the record of the handler's steps
FinallyLog(r) == IF HasTmpDir(tmpDir[r]) THEN <<"rm">> ELSE <<>>

\* decktape.on("close") with code !== 0: reject, then the finally block; the
\* .catch callback runs after the listener has called fs.rm
CloseFailure(r) ==
  /\ child[r] \in {"running", "errored"}
  /\ \E code \in CloseCodes(child[r]) : code # "0"
  /\ child' = [child EXCEPT ![r] = "closed"]
  /\ Reject(r, DecktapeFailed(stderrBuf[r], stdoutBuf[r]))
  /\ Log(r, <<"close">> \o RejectLog(r) \o FinallyLog(r) \o CatchLog(r))
  /\ exitPath' = [exitPath EXCEPT ![r] = IF child[r] = "errored" THEN "launch" ELSE "nonzero"]
  /\ Finally(r)
  /\ UNCHANGED <<body, tmpDir, dirs, args, stdoutBuf, stderrBuf, logged,
                 chunks, faults, quota, health, variant, env>>

\* a close listener that calls fs.rm before it reads output.pdf
CloseSuccessCleansFirst(r) ==
  /\ child[r] = "running"
  /\ \E code \in CloseCodes(child[r]) : code = "0"
  /\ child' = [child EXCEPT ![r] = "closed"]
  /\ rmTarget' = [rmTarget EXCEPT ![r] = tmpDir[r]]
  /\ Log(r, <<"close", "rm", "read">>)
  /\ pc' = [pc EXCEPT ![r] = "readFile"]
  /\ UNCHANGED <<body, tmpDir, dirs, args, stdoutBuf, stderrBuf, promise,
                 caught, handler, res, logged, exitPath, chunks, faults,
                 quota, health, variant, env>>

\* decktape.on("close") with code 0: fs.readFile is called
CloseSuccess(r) ==
  /\ child[r] = "running"
  /\ \E code \in CloseCodes(child[r]) : code = "0"
  /\ child' = [child EXCEPT ![r] = "closed"]
  /\ Log(r, <<"close", "read">>)
  /\ pc' = [pc EXCEPT ![r] = "readFile"]
  /\ UNCHANGED <<body, tmpDir, dirs, args, stdoutBuf, stderrBuf, promise,
                 caught, handler, res, rmTarget, logged, exitPath, chunks,
                 faults, quota, health, variant, env>>

(* --------------------------- result handling ---------------------------- *)

\* reading htmlPath where pdfPath is meant
ReadFileOfInput(ds, d) == IF ds[d].exists THEN ds[d].input ELSE NoFile

\* what fs.readFile(pdfPath) finds: pdfPath is join(tmpDir, "output.pdf")
ReadFile(ds, d) == IF ds[d].exists THEN ds[d].output ELSE NoFile

\* fs.readFile resolves: the headers are set, the buffer is sent, resolve()
\* is called, and the finally block calls fs.rm
ReadFileDone(r) ==
  /\ pc[r] = "readFile"
  /\ ReadFile(dirs, tmpDir[r]).exists
  /\ res' = [res EXCEPT ![r] = PdfResponse(@, ReadFile(dirs, tmpDir[r]))]
  /\ Resolve(r)
  /\ Log(r, <<"send">> \o ResolveLog(r) \o FinallyLog(r))
  /\ exitPath' = [exitPath EXCEPT ![r] = "success"]
  /\ Finally(r)
  /\ UNCHANGED <<body, tmpDir, dirs, args, child, stdoutBuf, stderrBuf,
                 caught, logged, chunks, faults, quota, health, variant,
                 env>>

\* fs.readFile rejects (no output.pdf, or a read error): the catch block
\* calls reject(error), and the finally block calls fs.rm
ReadFileFails(r) ==
  /\ pc[r] = "readFile"
  /\ ~ReadFile(dirs, tmpDir[r]).exists \/ faults < MaxFaults
  /\ faults' = IF ReadFile(dirs, tmpDir[r]).exists THEN faults + 1 ELSE faults
  /\ Reject(r, ReadFileError)
  /\ Log(r, RejectLog(r) \o FinallyLog(r) \o CatchLog(r))
  /\ exitPath' = [exitPath EXCEPT ![r] = "read"]
  /\ Finally(r)
  /\ UNCHANGED <<body, tmpDir, dirs, args, child, stdoutBuf, stderrBuf,
                 logged, chunks, quota, health, variant, env>>

(* -------------------------------- cleanup ------------------------------- *)

\* fs.rm(dir, { recursive: true, force: true }) succeeds
Removed(ds, d) == [ds EXCEPT ![d] = AbsentDir]

\* a cleanup whose failure replaces the response with an error response
RmCloseAnswers(r) ==
  /\ pc[r] = "rmClose"
  /\ \/ /\ dirs' = Removed(dirs, rmTarget[r])
        /\ UNCHANGED <<logged, faults, res>>
     \/ /\ logged' = [logged EXCEPT ![r] = TRUE]
        /\ res' = [res EXCEPT ![r] = OuterCatchResponse(@, ReadFileError)]
        /\ UNCHANGED <<dirs, faults>>
  /\ pc' = [pc EXCEPT ![r] = "done"]
  /\ UNCHANGED <<body, tmpDir, args, child, stdoutBuf, stderrBuf, promise,
                 caught, handler, rmTarget, exitPath, chunks, quota, events,
                 health, variant, env>>

\* the fs.rm of the close listener's finally block settles
RmCloseDone(r) ==
  /\ pc[r] = "rmClose"
  /\ \/ /\ dirs' = Removed(dirs, rmTarget[r])
        /\ UNCHANGED <<logged, faults>>
     \/ /\ logged' = [logged EXCEPT ![r] = TRUE]
        /\ UNCHANGED <<dirs, faults>>
  /\ pc' = [pc EXCEPT ![r] = "done"]
  /\ UNCHANGED <<body, tmpDir, args, child, stdoutBuf, stderrBuf, promise,
                 caught, handler, res, rmTarget, exitPath, chunks, quota,
                 events, health, variant, env>>

\* the fs.rm of the outer catch settles, and the handler returns
RmCatchDone(r) ==
  /\ pc[r] = "rmCatch"
  /\ \/ /\ dirs' = Removed(dirs, rmTarget[r])
        /\ UNCHANGED <<logged, faults>>
     \/ /\ logged' = [logged EXCEPT ![r] = TRUE]
        /\ UNCHANGED <<dirs, faults>>
  /\ handler' = [handler EXCEPT ![r] = Fulfilled]
  /\ pc' = [pc EXCEPT ![r] = "done"]
  /\ UNCHANGED <<body, tmpDir, args, child, stdoutBuf, stderrBuf, promise,
                 caught, res, rmTarget, exitPath, chunks, quota, events,
                 health, variant, env>>

(* ------------------------------ health probe --------------------------- *)

\* a probe that reports the conversions' failures
HealthReplyDegraded ==
  IF \E r \in Reqs : handler[r].state = "rejected"
    THEN [status |-> 503, body |-> <<"status", "degraded">>]
    ELSE [status |-> 200, body |-> <<"status", "ok">>]

\* res.json({ status: "ok" })
HealthReply == [status |-> 200, body |-> <<"status", "ok">>]

\* GET /health: the handler is synchronous and reads no state
Health ==
  /\ health.probes < MaxProbes
  /\ health' = [probes |-> health.probes + 1, status |-> HealthReply.status,
                cors |-> HasCors(variant), body |-> HealthReply.body]
  /\ UNCHANGED <<pc, body, tmpDir, dirs, args, child, stdoutBuf, stderrBuf,
                 promise, caught, handler, res, rmTarget, logged, exitPath,
                 events, variant, env, quota, chunks, faults>>

(* ----------------------------- specification ---------------------------- *)

Next ==
  \/ Health
  \/ \E r \in Reqs :
       \/ Convert(r)
       \/ MkdtempFails(r)
       \/ MkdtempDone(r)
       \/ WriteFileFails(r)
       \/ SpawnThrows(r)
       \/ SpawnFails(r)
       \/ Spawned(r)
       \/ StdoutData(r)
       \/ StderrData(r)
       \/ RendererWrites(r)
       \/ ErrorEvent(r)
       \/ CloseFailure(r)
       \/ CloseSuccess(r)
       \/ ReadFileDone(r)
       \/ ReadFileFails(r)
       \/ RmCloseDone(r)
       \/ RmCatchDone(r)

Spec == Init /\ [][Next]_vars

SpecConc == InitConc /\ [][Next]_vars

(* ------------------------- one request at a time ------------------------ *)

\* a client that sends its next request when the one before has been
\* answered, or when its handler has finished without an answer
ConvertNext(r) ==
  /\ \A q \in Reqs : q < r => res[q].sent \/ pc[q] = "done"
  /\ Convert(r)

NextSeq ==
  \/ Health
  \/ \E r \in Reqs :
       \/ ConvertNext(r)
       \/ MkdtempFails(r)
       \/ MkdtempDone(r)
       \/ WriteFileFails(r)
       \/ SpawnThrows(r)
       \/ SpawnFails(r)
       \/ Spawned(r)
       \/ StdoutData(r)
       \/ StderrData(r)
       \/ RendererWrites(r)
       \/ ErrorEvent(r)
       \/ CloseFailure(r)
       \/ CloseSuccess(r)
       \/ ReadFileDone(r)
       \/ ReadFileFails(r)
       \/ RmCloseDone(r)
       \/ RmCatchDone(r)

SpecSeq == InitConc /\ [][NextSeq]_vars

(* ----------------------- the argument vector alone ---------------------- *)

\* the values options.size and options.pause are given, and the settings of
\* CHROME_PATH and CHROME_FLAGS
ArgSizes ==
  {JsUndefined, JsString(<<>>), JsString(<<"A4">>), JsString(<<"1280x720">>),
   JsNumber(<<"0">>)}
ArgPauses ==
  {JsUndefined, JsNumber(<<"0">>), JsNumber(<<"2">>), JsString(<<"500">>),
   JsString(<<>>)}
ChromePaths == {<<>>, <<"/usr/bin/chromium">>}
ChromeFlagLists ==
  {<<>>, <<"--headless">>,
   <<"--no-sandbox", ",", "--disable-gpu", ",", "--headless">>,
   <<"--mute-audio", ",", ",", "--no-zygote">>}

\* One request whose input.html is about to be staged, for every options
\* object, environment, source file and directory name.
InitArgs ==
  /\ variant \in Variants
  /\ env \in [CHROME_PATH : ChromePaths, CHROME_FLAGS : ChromeFlagLists]
  /\ \E size \in ArgSizes, pause \in ArgPauses, d \in DirNames :
       /\ body = [r \in Reqs |->
                    IF r = 1
                      THEN [html |-> JsString(<<"<h1>">>),
                            options |-> [size |-> size, pause |-> pause]]
                      ELSE NoBody]
       /\ tmpDir = [r \in Reqs |-> IF r = 1 THEN d ELSE NoDir]
       /\ dirs = [e \in DirNames |-> IF e = d THEN EmptyDir(1) ELSE AbsentDir]
  /\ pc = [r \in Reqs |-> IF r = 1 THEN "writeFile" ELSE "idle"]
  /\ handler = [r \in Reqs |->
                  IF r = 1 THEN Pending ELSE [state |-> "none", reason |-> NoError]]
  /\ res = [r \in Reqs |-> IF r = 1 THEN Cors(variant, NoResponse) ELSE NoResponse]
  /\ args = [r \in Reqs |-> <<>>]
  /\ child = [r \in Reqs |-> "none"]
  /\ stdoutBuf = [r \in Reqs |-> <<>>]
  /\ stderrBuf = [r \in Reqs |-> <<>>]
  /\ promise = [r \in Reqs |-> "none"]
  /\ caught = [r \in Reqs |-> NoError]
  /\ rmTarget = [r \in Reqs |-> NoDir]
  /\ logged = [r \in Reqs |-> FALSE]
  /\ exitPath = [r \in Reqs |-> "none"]
  /\ events = [r \in Reqs |-> <<>>]
  /\ health = NoHealth
  /\ quota = MaxReq
  /\ chunks = 0
  /\ faults = 0

\* input.html is written, the argument vector is built and given to spawn
NextArgs == \E r \in Reqs : Spawned(r)

SpecArgs == InitArgs /\ [][NextArgs]_vars

TypeOK ==
  /\ pc \in [Reqs -> {"idle", "mkdtemp", "writeFile", "waiting", "readFile",
                      "rmClose", "rmCatch", "done"}]
  /\ tmpDir \in [Reqs -> DirNames \cup {NoDir}]
  /\ child \in [Reqs -> {"none", "failed", "errored", "running", "closed"}]
  /\ promise \in [Reqs -> {"none", "pending", "resolved", "rejected"}]
  /\ chunks \in 0..MaxChunks
  /\ faults \in 0..MaxFaults
  /\ health.probes \in 0..MaxProbes
  /\ variant \in Variants

(* -------------------------------- claims -------------------------------- *)

Done(r) == pc[r] = "done"
InFlight(r) == pc[r] \notin {"idle", "done"}
JsonError(r, status) ==
  /\ res[r].sent
  /\ res[r].status = status
  /\ res[r].ctype = "application/json"
  /\ res[r].error # <<>>
  /\ ~res[r].pdf.exists

\* C1: a request whose child closed with a non-zero code (or null) is
\* answered with status 500 and a JSON error whose details carry the stderr
\* text, or the stdout text when stderr is empty, together with both
\* captured buffers.
C1_NonZeroExitAnswered ==
  \A r \in Reqs :
    (Done(r) /\ exitPath[r] = "nonzero") =>
      /\ JsonError(r, 500)
      /\ res[r].details = DecktapeFailed(stderrBuf[r], stdoutBuf[r]).message
      /\ res[r].diag
      /\ res[r].stdout = stdoutBuf[r]
      /\ res[r].stderr = stderrBuf[r]

\* C2: once the renderer of a request has terminated or has failed to start
\* and the handler has nothing left to do, a response has been sent, and it
\* is the PDF or a JSON error object.
C2_TerminatedAnswered ==
  \A r \in Reqs :
    (Done(r) /\ exitPath[r] \in {"success", "nonzero", "read", "launch", "spawn"}) =>
      /\ res[r].sent
      /\ res[r].ctype \in {"application/pdf", "application/json"}

\* C3: no internal error leaves the request boundary: the promise the
\* handler returned is never rejected, and a request that ended on an
\* internal error has been answered with a JSON error.
C3_NothingEscapes ==
  \A r \in Reqs :
    /\ handler[r].state # "rejected"
    /\ (Done(r) /\ exitPath[r] \in {"mkdtemp", "staging", "spawn", "launch", "nonzero", "read"})
         => JsonError(r, 500)

\* C4: a request that made a working directory and ended by a successful
\* conversion, a non-zero exit, a launch failure reported by the error
\* event, an unreadable output or a staging exception has called fs.rm on
\* that directory, and unless that removal failed the directory is gone.
C4_CleanupAttempted ==
  \A r \in Reqs :
    (Done(r) /\ tmpDir[r] # NoDir
       /\ exitPath[r] \in {"success", "nonzero", "launch", "read", "staging"}) =>
      /\ rmTarget[r] = tmpDir[r]
      /\ ~logged[r] => ~(dirs[tmpDir[r]].exists /\ dirs[tmpDir[r]].owner = r)

C4_Witness ==
  \E r \in Reqs :
    /\ Done(r) /\ exitPath[r] = "launch"
    /\ rmTarget[r] # NoDir /\ ~logged[r] /\ ~dirs[rmTarget[r]].exists

\* C5: a request whose html is absent or empty is answered with status 400
\* and { error: ... }, and has made no directory, written no file and
\* spawned no process.
C5_MissingHtmlRejected ==
  \A r \in Reqs :
    (pc[r] # "idle" /\ body[r].html \in {JsUndefined, JsString(<<>>)}) =>
      /\ JsonError(r, 400)
      /\ res[r].error = <<"HTML content is required">>
      /\ tmpDir[r] = NoDir /\ rmTarget[r] = NoDir
      /\ \A d \in DirNames : dirs[d].owner # r /\ dirs[d].input.by # r
      /\ args[r] = <<>> /\ child[r] = "none" /\ promise[r] = "none"

C5_Witness ==
  \E r \in Reqs :
    Done(r) /\ body[r].html = JsString(<<>>) /\ res[r].sent /\ res[r].status = 400

\* C6: a request whose html is not a non-empty string (a number, an object,
\* ...) is answered with the status-400 validation error and makes no
\* working directory (stated here for runs without operating-system
\* failures, which is where the code already departs from it).
C6_NonStringRejected ==
  \A r \in Reqs :
    (pc[r] # "idle" /\ faults = 0
       /\ ~(body[r].html.t = "string" /\ body[r].html.v # <<>>)) =>
      /\ tmpDir[r] = NoDir
      /\ Done(r) => JsonError(r, 400)

\* C7: a request whose renderer closed with code 0 and whose output.pdf was
\* readable is answered with exactly the content of its output.pdf as read
\* after the exit, as application/pdf with the attachment disposition, and
\* with no error payload.
C7_PdfIsOutputFile ==
  \A r \in Reqs :
    exitPath[r] = "success" =>
      /\ res[r].sent /\ res[r].status = 200
      /\ res[r].ctype = "application/pdf"
      /\ res[r].disp = "attachment; filename=presentation.pdf"
      /\ res[r].error = <<>> /\ res[r].details = <<>>
      /\ res[r].pdf = File(Render(body[r].html.v), r)
      /\ pc[r] = "rmClose" => res[r].pdf = dirs[tmpDir[r]].output

C7_Witness ==
  \E r \in Reqs :
    /\ pc[r] = "rmClose" /\ exitPath[r] = "success"
    /\ res[r].sent /\ res[r].pdf.exists /\ dirs[tmpDir[r]].output.exists

\* C8: a request whose renderer closed with code 0 but whose output.pdf
\* could not be read is answered with a status-500 JSON error.
C8_UnreadableOutputAnswered ==
  \A r \in Reqs : (Done(r) /\ exitPath[r] = "read") => JsonError(r, 500)

\* C9: a request whose renderer could not be started (the child emitted an
\* error event) is answered with a status-500 JSON error whose details
\* describe the launch failure.
C9_LaunchFailureAnswered ==
  \A r \in Reqs :
    (Done(r) /\ exitPath[r] = "launch") =>
      JsonError(r, 500) /\ res[r].details = SpawnError.message

\* C10: among concurrent requests no two in flight hold the same working
\* directory, fs.rm is called only on the caller's own directory, the
\* stream buffers hold only the caller's own child's output, and the
\* response is built only from the caller's own output.pdf.
OwnText(text, stream, r) ==
  \A i \in 1..Len(text) : text[i] = Chunk(stream, r)[((i - 1) % 2) + 1]

C10_Isolation ==
  /\ \A r, q \in Reqs :
       (r # q /\ InFlight(r) /\ InFlight(q) /\ tmpDir[r] # NoDir) => tmpDir[r] # tmpDir[q]
  /\ \A r \in Reqs :
       /\ rmTarget[r] # NoDir => rmTarget[r] = tmpDir[r]
       /\ pc[r] \in {"rmClose", "rmCatch"} =>
            dirs[rmTarget[r]].exists /\ dirs[rmTarget[r]].owner = r
       /\ OwnText(stdoutBuf[r], "out", r) /\ OwnText(stderrBuf[r], "err", r)
       /\ res[r].pdf.exists =>
            res[r].pdf.by = r /\ res[r].pdf.data = Render(body[r].html.v)

C10_Witness ==
  \E r, q \in Reqs :
    /\ r # q
    /\ pc[r] = "rmClose" /\ res[r].pdf.exists
    /\ pc[q] = "waiting" /\ tmpDir[q] # NoDir /\ stderrBuf[q] # <<>>

(* ------------------------- order of a handler's steps ------------------- *)

Count(steps, e) == Cardinality({i \in 1..Len(steps) : steps[i] = e})
\* every e in steps has one of firsts somewhere before it
Preceded(steps, firsts, e) ==
  \A j \in 1..Len(steps) :
    steps[j] = e => \E i \in 1..(j - 1) : steps[i] \in firsts
Settled(r) == promise[r] \in {"resolved", "rejected"}

\* C15: in a request that got past staging, output.pdf is read and a
\* response is sent only after the child has closed (or has reported that
\* it could not start); the streams are accumulated before the close event,
\* the file is read after it, and the response follows the read.
C15_ReadAfterClose ==
  /\ [](\A r \in Reqs :
          args[r] # <<>> =>
            /\ Preceded(events[r], {"close"}, "read")
            /\ Preceded(events[r], {"close", "error"}, "send")
            /\ res[r].pdf.exists => Preceded(events[r], {"read"}, "send")
            /\ pc[r] = "readFile" => child[r] = "closed"
            /\ res[r].sent => child[r] = "closed")
  /\ [][\A r \in Reqs :
          child[r] = "closed" =>
            stdoutBuf'[r] = stdoutBuf[r] /\ stderrBuf'[r] = stderrBuf[r]]_vars

C15_Witness ==
  \E r \in Reqs :
    /\ exitPath[r] = "success" /\ res[r].pdf.exists
    /\ stdoutBuf[r] # <<>>
    /\ events[r] = <<"close", "read", "send", "resolve", "rm">>

\* C16: fs.rm is called only after the response is determined (the document
\* has been read and sent, or the error has been constructed and handed to
\* reject or to the outer catch); while output.pdf is being read no removal
\* of its directory is under way, and a removal that settles leaves the
\* response as it was.
C16_CleanupAfterPayload ==
  /\ [](\A r \in Reqs :
          /\ Preceded(events[r], {"send", "reject"}, "rm")
          /\ rmTarget[r] # NoDir => res[r].sent \/ caught[r] # NoError
          /\ pc[r] = "readFile" =>
               /\ dirs[tmpDir[r]].exists
               /\ \A q \in Reqs :
                    pc[q] \in {"rmClose", "rmCatch"} => rmTarget[q] # tmpDir[r])
  /\ [][\A r \in Reqs :
          pc[r] \in {"rmClose", "rmCatch"} => res'[r] = res[r]]_vars

C16_Witness ==
  \E r \in Reqs :
    /\ pc[r] = "done" /\ res[r].pdf.exists
    /\ rmTarget[r] = tmpDir[r] /\ ~dirs[tmpDir[r]].exists

\* C17 as stated: when fs.mkdtemp or fs.writeFile fails no child is spawned,
\* the client gets a 500 JSON error, and that response is sent only after
\* the removal of the directory that had been created has been attempted.
C17_ResponseAfterCleanup ==
  \A r \in Reqs :
    exitPath[r] \in {"mkdtemp", "staging"} =>
      /\ child[r] = "none" /\ args[r] = <<>>
      /\ JsonError(r, 500)
      /\ tmpDir[r] # NoDir => Preceded(events[r], {"rm"}, "send")

\* C17 amended: when fs.mkdtemp or fs.writeFile fails no child is spawned,
\* the client gets a 500 JSON error, and the removal of the directory that
\* had been created is attempted after that response has been sent.
C17_CleanupAfterResponse ==
  \A r \in Reqs :
    exitPath[r] \in {"mkdtemp", "staging"} =>
      /\ child[r] = "none" /\ args[r] = <<>>
      /\ JsonError(r, 500)
      /\ tmpDir[r] # NoDir =>
           /\ Count(events[r], "rm") = 1 /\ rmTarget[r] = tmpDir[r]
           /\ Preceded(events[r], {"send"}, "rm")

C17_Witness ==
  \E r \in Reqs :
    /\ exitPath[r] = "staging" /\ body[r].html.t = "string"
    /\ Done(r) /\ res[r].status = 500 /\ res[r].sent
    /\ tmpDir[r] # NoDir /\ ~dirs[tmpDir[r]].exists

\* C18: whatever the child's events (an error event followed by a close
\* event among them), the promise is settled once and stays as settled,
\* the .catch callback runs at most once, and at most one response is sent.
C18_SettlesOnce ==
  /\ [](\A r \in Reqs :
          /\ Count(events[r], "send") <= 1
          /\ Count(events[r], "catch") <= 1
          /\ Count(events[r], "reject") + Count(events[r], "resolve") <= 1
          /\ (Done(r) /\ promise[r] # "none") => Settled(r))
  /\ [][\A r \in Reqs :
          /\ Settled(r) =>
               /\ promise'[r] = promise[r] /\ caught'[r] = caught[r]
               /\ handler'[r] = handler[r]
          /\ res[r].sent => res'[r] = res[r]]_vars

C18_Witness ==
  \E r \in Reqs :
    /\ Done(r) /\ child[r] = "closed"
    /\ Count(events[r], "error") = 1 /\ Count(events[r], "close") = 1
    /\ promise[r] = "rejected" /\ caught[r] = SpawnError

\* C19: when fs.rm fails the failure is logged and nothing else: the
\* response, the promise and what the handler returns are what they are
\* when the removal succeeds.
C19_CleanupFailureLogged ==
  [][\A r \in Reqs :
       (pc[r] \in {"rmClose", "rmCatch"} /\ pc'[r] = "done") =>
         /\ res'[r] = res[r]
         /\ promise'[r] = promise[r]
         /\ handler'[r].state = "rejected" => handler'[r] = handler[r]
         /\ logged'[r] \/ ~dirs'[rmTarget[r]].exists]_vars

C19_Witness ==
  \E r \in Reqs :
    /\ Done(r) /\ logged[r] /\ dirs[tmpDir[r]].exists
    /\ res[r].pdf.exists /\ res[r].status = 200
    /\ handler[r] = Fulfilled

TokensWith(argv, prefix) ==
  {i \in 1..Len(argv) : argv[i] # <<>> /\ argv[i][1] = prefix}
\* a string that is not empty, or a number
Carries(x) == (x.t = "string" /\ x.v # <<>>) \/ x.t = "number"
\* the token --name=value is in argv once when present is true, and no
\* token --name= is in argv when it is false
TokenIff(argv, prefix, present, x) ==
  IF present
    THEN /\ Cardinality(TokensWith(argv, prefix)) = 1
         /\ \A i \in TokensWith(argv, prefix) : argv[i] = <<prefix>> \o ToText(x)
    ELSE TokensWith(argv, prefix) = {}

\* C12: the argument vector holds the token --size=<value> exactly when
\* options carries a size (a string or a number), and the token
\* --pause=<value> exactly when options carries a pause; without options
\* it holds neither.
C12_OptionTokens ==
  \A r \in Reqs :
    args[r] # <<>> =>
      LET o == body[r].options
      IN /\ TokenIff(args[r], "--size=", Carries(o.size), o.size)
         /\ TokenIff(args[r], "--pause=", Carries(o.pause), o.pause)

\* the text of CHROME_FLAGS in force, the number of its entries, and the
\* entries joined by "," again
FlagText == IF env.CHROME_FLAGS = <<>> THEN DefaultChromeFlags ELSE env.CHROME_FLAGS
Entries(text) == Cardinality({i \in 1..Len(text) : text[i] = ","}) + 1
RECURSIVE JoinComma(_)
JoinComma(texts) ==
  IF Len(texts) = 0 THEN <<>>
  ELSE IF Len(texts) = 1 THEN texts[1]
  ELSE texts[1] \o <<",">> \o JoinComma(Tail(texts))

\* C13: the argument vector starts with the renderer's entry point; it
\* holds one --chrome-arg=<flag> token for each entry of the comma-separated
\* flag list, in the list's order; after them come "generic", the file://
\* URI of the request's input.html and the path of its output.pdf, in this
\* order.
C13_ArgumentOrder ==
  \A r \in Reqs :
    args[r] # <<>> =>
      LET a == args[r]
          n == Entries(FlagText)
          d == tmpDir[r]
      IN /\ a[1] = DecktapePath
         /\ TokensWith(a, "--chrome-arg=") = 4..(3 + n)
         /\ JoinComma([i \in 1..n |-> Tail(a[3 + i])]) = FlagText
         /\ a[4 + n] = <<"generic">>
         /\ a[5 + n] = <<"file://", "/tmp/decktape-", ToString(d), "/input.html">>
         /\ a[6 + n] = <<"/tmp/decktape-", ToString(d), "/output.pdf">>
         /\ \A i \in 1..Len(a) : a[i] = <<"generic">> => i = 4 + n

C13_Witness ==
  \E r \in Reqs :
    /\ args[r] # <<>> /\ child[r] = "running"
    /\ Entries(env.CHROME_FLAGS) = 3
    /\ Truthy(body[r].options.size)

(* ---------------------------- the two variants -------------------------- *)

\* What the /convert handler of src/unnamed/part_000 sends on the branch
\* request r took: the handler's response built on a response object that
\* no middleware has touched.
PartResponse(r) ==
  CASE exitPath[r] = "validation" -> ValidationResponse(NoResponse)
    [] exitPath[r] = "mkdtemp" -> OuterCatchResponse(NoResponse, MkdtempError)
    [] exitPath[r] = "staging" ->
         OuterCatchResponse(NoResponse,
                            IF body[r].html.t = "string" THEN WriteFileError
                                                         ELSE WriteTypeError)
    [] exitPath[r] = "success" ->
         PdfResponse(NoResponse, File(Render(body[r].html.v), r))
    [] exitPath[r] \in {"spawn", "launch", "nonzero", "read"} ->
         CatchCallback(NoResponse, caught[r]).res
    [] OTHER -> NoResponse

\* the argument vector of part_000 for request r
PartArgs(r) ==
  BuildArgs(body[r].options, tmpDir[r], env.CHROME_PATH, env.CHROME_FLAGS, FALSE)

\* The argument vector of request r is that of part_000, with the two key
\* tokens right after the output path when src/server.js runs; the renderer
\* is given the same input and output in both.
SameArgsUpToKeys(r) ==
  LET a == args[r]
      k == ModeIndex(a) + 2
  IN /\ a[k] = PdfPath(tmpDir[r])
     /\ DirOfUri(RendererInput(a)) = tmpDir[r]
     /\ DirOfPdf(RendererOutput(a)) = tmpDir[r]
     /\ IF variant = "server.js"
          THEN /\ a[k + 1] = <<"--key=ArrowDown">>
               /\ a[k + 2] = <<"--key=ArrowRight">>
               /\ SubSeq(a, 1, k) \o SubSeq(a, k + 3, Len(a)) = PartArgs(r)
               /\ \A i \in (k + 3)..Len(a) : a[i][1] \in {"--size=", "--pause="}
          ELSE /\ a = PartArgs(r)
               /\ \A i \in 1..Len(a) : a[i][1] \notin {"--key=ArrowDown", "--key=ArrowRight"}

\* C20 as stated: whichever source file runs, a finished request has sent
\* the response part_000 sends, and the argument vectors differ by the two
\* key tokens only.
C20_SameResponse ==
  \A r \in Reqs :
    /\ Done(r) => res[r] = PartResponse(r)
    /\ args[r] # <<>> => SameArgsUpToKeys(r)

\* C20 amended: whichever source file runs, a finished request has sent the
\* response part_000 sends but for the cross-origin headers, which the
\* responses of src/server.js carry and those of part_000 do not; the
\* argument vectors differ by the two key tokens only.
C20_SameUpToKeysAndCors ==
  \A r \in Reqs :
    /\ Done(r) =>
         /\ [res[r] EXCEPT !.cors = FALSE] = PartResponse(r)
         /\ res[r].cors = (variant = "server.js")
    /\ args[r] # <<>> => SameArgsUpToKeys(r)

C20_Witness ==
  \E r \in Reqs :
    /\ variant = "server.js" /\ Done(r)
    /\ res[r].pdf.exists /\ res[r].cors
    /\ TokensWith(args[r], "--key=ArrowDown") # {}
    /\ TokensWith(args[r], "--size=") # {}

(* --------------------------- the same request twice --------------------- *)

\* two responses of the same kind and content
SameContent(a, b) == [a EXCEPT !.pdf.by = 0] = [b EXCEPT !.pdf.by = 0]
\* q repeats the request r after r: the same body, a renderer that wrote as
\* much and ended the same way
Repeats(r, q) ==
  /\ r < q /\ Done(r) /\ Done(q)
  /\ body[q] = body[r] /\ ~Invalid(body[r].html)
  /\ exitPath[q] = exitPath[r]
  /\ Len(stdoutBuf[q]) = Len(stdoutBuf[r]) /\ Len(stderrBuf[q]) = Len(stderrBuf[r])
\* request q sees only what is its own: buffers filled by its own child, a
\* document written by its own renderer, a directory that was empty when
\* fs.mkdtemp made it for q
SeesOwn(q) ==
  /\ OwnText(stdoutBuf[q], "out", q) /\ OwnText(stderrBuf[q], "err", q)
  /\ res[q].pdf.exists => res[q].pdf.by = q
  /\ pc[q] = "writeFile" => dirs[tmpDir[q]] = EmptyDir(q)
  /\ pc[q] \in {"waiting", "readFile"} =>
       /\ dirs[tmpDir[q]].owner = q
       /\ dirs[tmpDir[q]].input = File(body[q].html.v, q)
       /\ dirs[tmpDir[q]].output.exists => dirs[tmpDir[q]].output.by = q

====
